---- MODULE Spec2Model ----
(***************************************************************************)
(* The similar-photos handler of photoviewer-api                           *)
(* (src/handlers/getSimilarPhotos.js).  The file holds two versions of the *)
(* handler module: lines 1-363 (ver = 1, with a vector table lookup and a  *)
(* module flag that is never reset) and lines 365-743 (ver = 2, which      *)
(* resets the flag in every request).  One worker process loads one of     *)
(* them; the module-level flag useMockMode is shared by every invocation   *)
(* the worker runs.  An invocation runs without interruption from one      *)
(* await to the next, so there is one action per resumption.               *)
(***************************************************************************)
EXTENDS Integers, Sequences, FiniteSets, TLC

(***************************************************************************)
(* Bounds of the model.                                                    *)
(***************************************************************************)
\* longest result list the vector service answers a search with
MaxHits == 2

\* the invocations one worker may have in flight at the same time
Invocations == {1, 2}

(***************************************************************************)
(* Program constants.                                                      *)
(***************************************************************************)
\* const MOCK_MODE = false (second version); the first version has no such
\* constant and initialises the flag with the literal false
MOCK_MODE == FALSE

\* parseInt(params.limit) || 20
DefaultLimit == 20

(***************************************************************************)
(* The item store: a table of photo records in the store's scan order.     *)
(***************************************************************************)
\* the value of an attribute a record does not have (undefined)
Absent == "<absent>"

Photo(k, t) ==
  [Key |-> k, Year |-> Absent, Event |-> Absent, Day |-> Absent, Team |-> t, Misc |-> Absent]

Described(p, y, e, d, m) == [p EXCEPT !.Year = y, !.Event = e, !.Day = d, !.Misc = m]

NoItem == Photo("", "")

P1 == Described(Photo("p1", "Red"), "2024", "Open", "Sat", Absent)

P2 == Described(Photo("p2", "Red"), "2024", Absent, "Sat", "pit")

P3 == Described(Photo("p3", "Blue"), Absent, "Open", Absent, "")

P4 == Described(Photo("p4", "Blue"), "2023", "Open", "Sun", "start")

Tables == { << P1, P2, P3 >>, << P3, P4, P1, P2 >>, << P2, P3 >> }

\* a hit's score, in hundredths, or no score
Score(v) == [has |-> TRUE, val |-> v]

NoScore == [has |-> FALSE, val |-> 0]

\* keyToId: the SHA-1 of the key reduced to a number; distinct for the keys used
KeyToId(key) ==
  CASE key = "p1" -> 110 [] key = "p2" -> 120 [] key = "p3" -> 130 [] key = "p4" -> 140
    [] OTHER -> 100

\* a hit of the vector service; the id of a point is keyToId of its key
Hit(p, s) == [id |-> KeyToId(p.Key), payload |-> p, score |-> s]

\* what the vector service may return as a hit: the payload is what the index
\* stores for the photo, which may lack attributes the item store has, or
\* lack the Key
SearchHits ==
  { Hit(P1, Score(95)), Hit(P2, Score(80)),
    Hit(Photo("p3", Absent), NoScore), Hit(Photo("", "Red"), Score(90)) }

\* Math.random() * 0.5 + 0.5, in hundredths: any value of [0.5, 1.0)
FallbackScores == {50, 99}

RECURSIVE SeqsUpTo(_, _)
SeqsUpTo(S, n) ==
  IF n = 0 THEN { << >> }
  ELSE LET shorter == SeqsUpTo(S, n - 1)
       IN  shorter \cup { Append(s, x) : s \in { t \in shorter : Len(t) = n - 1 }, x \in S }

SearchResultSets == SeqsUpTo(SearchHits, MaxHits)

(***************************************************************************)
(* Requests.  A query string parameter is a string; the limit is kept as   *)
(* its sequence of characters so that parseInt has something to parse.     *)
(***************************************************************************)
\* the texts a client sends as limit
LimitTexts == { << >>, <<"0">>, <<"1">>, <<"2">>, <<"-", "1">>, <<"x">>, <<"2", "x">> }

\* a query-string parameter: absent, or the characters of its text
NoText == [has |-> FALSE, text |-> << >>]

Text(t) == [has |-> TRUE, text |-> t]

QueryOption(l, t) == [limit |-> l, threshold |-> t]

\* the threshold text that the requests considered carry with a limit text
ThresholdWith(t) ==
  CASE t = << >> -> NoText
    [] t \in { <<"0">>, <<"x">> } -> Text(<<"x">>)
    [] t = <<"1">> -> Text(<<"0", ".", "5">>)
    [] t \in { <<"2">>, <<"2", "x">> } -> Text(<<"0">>)
    [] t = <<"-", "1">> -> Text(<<"0", ".", "9", "x">>)

\* the limit and threshold parameters of the requests considered: no
\* parameter, or a limit text with its threshold text
QueryOptions ==
  { QueryOption(NoText, NoText) }
  \cup { QueryOption(Text(t), ThresholdWith(t)) : t \in LimitTexts }

Events ==
  LET ids == { [has |-> FALSE, text |-> ""] }
               \cup { [has |-> TRUE, text |-> t] : t \in {"", "p1", "px"} }
  IN  \* event.queryStringParameters is null when the request has no query string
      { [hasParams |-> FALSE, hasId |-> FALSE, id |-> "", hasLimit |-> FALSE, limit |-> << >>,
         hasThreshold |-> FALSE, threshold |-> << >>] }
      \cup
      { [hasParams |-> TRUE, hasId |-> i.has, id |-> i.text,
         hasLimit |-> o.limit.has, limit |-> o.limit.text,
         hasThreshold |-> o.threshold.has, threshold |-> o.threshold.text] :
           i \in ids, o \in QueryOptions }

VARIABLES
  ver,            \* which version of the handler module the worker loaded
  table,          \* the item store's content
  useMockMode,    \* let useMockMode (module level, shared)
  pc,             \* per invocation: the await it is suspended at
  photoId,        \* const photoId = params.id
  limit,          \* const limit = parseInt(params.limit) || 20
  threshold,      \* const threshold = parseFloat(params.threshold) || 0.75, in hundredths
  thresholdParam, \* params.threshold as the request carried it
  photoItem,      \* const photoItem = await getPhotoItem(photoId)
  branch,         \* which arm of `if (useMockMode)` the invocation took
  calls,          \* the outbound calls of the invocation, with their outcomes
  searchResults,  \* let searchResults
  resp,           \* what the invocation returned
  last,           \* an earlier request of this worker and what it was answered
  fpc,            \* getFilters: where its invocation stands
  selected,       \* getFilters: selectedYears, selectedEvents, selectedDays
  queries,        \* getFilters: the queryFilters calls issued, with their results
  fresp,          \* getFilters: what the invocation returned
  ppc,            \* getPhotos: where its invocation stands
  raw,            \* getPhotos: const raw, the values given for each parameter name
  filter,         \* getPhotos: FilterExpression with its names and values
  scanned,        \* getPhotos: let items, the items of the pages read so far
  scans,          \* getPhotos: the page scans issued, with their answers
  presp,          \* getPhotos: what the invocation returned
  resolved        \* getQueryParamAsArray: the call made, with what it returned

\* the state of the getFilters handler
filterVars == << fpc, selected, queries, fresp >>

\* the state of the getPhotos handler
photosVars == << ppc, raw, filter, scanned, scans, presp >>

\* what the similar-photos handler never writes
aux == << last, filterVars, photosVars, resolved >>

vars == << ver, table, useMockMode, pc, photoId, limit, threshold, thresholdParam, photoItem, branch,
           calls, searchResults, resp, aux >>

(***************************************************************************)
(* Pure helpers of the handler.                                            *)
(***************************************************************************)
Digits == {"0", "1", "2", "3", "4", "5", "6", "7", "8", "9"}

DigitVal(c) ==
  CASE c = "0" -> 0 [] c = "1" -> 1 [] c = "2" -> 2 [] c = "3" -> 3 [] c = "4" -> 4
    [] c = "5" -> 5 [] c = "6" -> 6 [] c = "7" -> 7 [] c = "8" -> 8 [] c = "9" -> 9

\* the value of the longest prefix of digits of s, having read acc so far
RECURSIVE DigitsValue(_, _)
DigitsValue(s, acc) ==
  IF s = << >> \/ Head(s) \notin Digits THEN acc
  ELSE DigitsValue(Tail(s), 10 * acc + DigitVal(Head(s)))

\* parseInt(text) of JavaScript, radix 10: an optional sign, then the longest
\* prefix of digits; NaN when there is no digit
ParseInt(present, text) ==
  LET signed == text # << >> /\ Head(text) \in {"-", "+"}
      body   == IF signed THEN Tail(text) ELSE text
      value  == DigitsValue(body, 0)
  IN  IF ~present \/ body = << >> \/ Head(body) \notin Digits
        THEN [nan |-> TRUE, val |-> 0]
        ELSE [nan |-> FALSE, val |-> IF signed /\ Head(text) = "-" THEN 0 - value ELSE value]

\* faulty variant of MissingId: the test is `photoId === undefined`, so an empty id passes
MissingId_UndefinedOnly(event) == ~event.hasParams \/ ~event.hasId

\* const params = event.queryStringParameters || {};  if (!photoId)
MissingId(event) == ~event.hasParams \/ ~event.hasId \/ event.id = ""

\* const limit = parseInt(params.limit) || 20;  NaN and 0 are falsy
ParseLimit(event) ==
  LET n == ParseInt(event.hasParams /\ event.hasLimit, event.limit)
  IN  IF n.nan \/ n.val = 0 THEN DefaultLimit ELSE n.val

\* the value, in hundredths, of the first two digits of a fraction s
FractionValue(s) ==
  LET d1 == IF s # << >> /\ Head(s) \in Digits THEN DigitVal(Head(s)) ELSE 0
      d2 == IF Len(s) >= 2 /\ s[1] \in Digits /\ s[2] \in Digits THEN DigitVal(s[2]) ELSE 0
  IN  10 * d1 + d2

\* the rest of s after its longest prefix of digits
RECURSIVE AfterDigits(_)
AfterDigits(s) == IF s = << >> \/ Head(s) \notin Digits THEN s ELSE AfterDigits(Tail(s))

\* parseFloat(text) of JavaScript for decimal literals: an optional sign,
\* digits, an optional point and digits; NaN when no digit is read.  The value
\* is in hundredths.
ParseFloat(present, text) ==
  LET signed == text # << >> /\ Head(text) \in {"-", "+"}
      body   == IF signed THEN Tail(text) ELSE text
      rest   == AfterDigits(body)
      frac   == IF rest # << >> /\ Head(rest) = "." THEN Tail(rest) ELSE << >>
      noInt  == body = << >> \/ Head(body) \notin Digits
      noFrac == frac = << >> \/ Head(frac) \notin Digits
      value  == 100 * DigitsValue(body, 0) + FractionValue(frac)
  IN  IF ~present \/ (noInt /\ noFrac)
        THEN [nan |-> TRUE, val |-> 0]
        ELSE [nan |-> FALSE, val |-> IF signed /\ Head(text) = "-" THEN 0 - value ELSE value]

\* 0.75, in hundredths
DefaultThreshold == 75

\* const threshold = parseFloat(params.threshold) || 0.75;  NaN and 0 are falsy
ParseThreshold(event) ==
  LET x == ParseFloat(event.hasParams /\ event.hasThreshold, event.threshold)
  IN  IF x.nan \/ x.val = 0 THEN DefaultThreshold ELSE x.val

\* faulty variant of GetPhotoItem: the catch returns an empty object, which is truthy
GetPhotoItem_ErrorAsObject(key, storeOk) ==
  IF ~storeOk THEN Photo(key, "")
  ELSE IF \E k \in 1..Len(table) : table[k].Key = key
    THEN table[CHOOSE k \in 1..Len(table) : table[k].Key = key]
    ELSE NoItem

\* getPhotoItem: the stored record, or a falsy value when there is none or
\* when the store throws (the catch returns null)
GetPhotoItem(key, storeOk) ==
  IF storeOk /\ \E k \in 1..Len(table) : table[k].Key = key
    THEN table[CHOOSE k \in 1..Len(table) : table[k].Key = key]
    ELSE NoItem

\* faulty variant of ScanItems: the FilterExpression is left out of the scan
ScanItems_AnyTeam(team, scanLimit) ==
  IF scanLimit <= 0 THEN << >>
  ELSE SubSeq(table, 1, IF scanLimit < Len(table) THEN scanLimit ELSE Len(table))

\* ScanCommand with FilterExpression #team = :team and Limit: the store reads
\* the first Limit records in its own order and returns those that match
ScanItems(team, scanLimit) ==
  IF scanLimit <= 0 THEN << >>
  ELSE LET n == IF scanLimit < Len(table) THEN scanLimit ELSE Len(table)
       IN  SelectSeq(SubSeq(table, 1, n), LAMBDA r : r.Team = team)

\* scanResponse.Items.map(item => ({ id: pointId !== ... })) of the mock-mode
\* arm: pointId is declared nowhere, so the first call of the callback throws
\* a ReferenceError; on an empty list the callback is never called
MockMapThrows(items) == Len(items) > 0

\* faulty variant of FallbackId: the id of the query photo is kept as it is
FallbackId_Unchanged(key, id) == KeyToId(key)

\* keyToId(item.Key) !== keyToId(photoId) ? keyToId(item.Key) : keyToId(photoId) + 1
FallbackId(key, id) ==
  IF KeyToId(key) # KeyToId(id) THEN KeyToId(key) ELSE KeyToId(id) + 1

\* scanResponse.Items.map(item => ({ id: ..., score: Math.random() * 0.5 + 0.5,
\* payload: item }))
FallbackHits(items, scores, id) ==
  [k \in 1..Len(items) |->
     [Hit(items[k], Score(scores[k])) EXCEPT !.id = FallbackId(items[k].Key, id)]]

\* the scores Math.random may give the items of one scan
RandomScores(items) == [1..Len(items) -> FallbackScores]

\* faulty variant of SkipHit: only hits without a key are skipped
SkipHit_KeylessOnly(key, id) == key = ""

\* if (!key || key === photoId) continue;
SkipHit(key, id) == key = "" \/ key = id

\* S3_BASE, with S3_BUCKET as serverless.yml sets it
S3_BASE == "https://trackphotos-eu-west-1.s3.eu-west-1.amazonaws.com"

\* faulty variant of OrEmpty: the `|| ''` is left out
OrEmpty_AsIs(v) == v

\* payload.Year || ''
OrEmpty(v) == IF v = Absent THEN "" ELSE v

\* hit.score || 0
OrZero(s) == IF s.has THEN s.val ELSE 0

\* similarPhotos.push({ id: key, Year: payload.Year || '', ... }); a URL is
\* kept as the parts the template joins
FormatHit(hit) ==
  [id |-> hit.payload.Key,
   Year |-> OrEmpty(hit.payload.Year),
   Event |-> OrEmpty(hit.payload.Event),
   Day |-> OrEmpty(hit.payload.Day),
   Team |-> OrEmpty(hit.payload.Team),
   Misc |-> OrEmpty(hit.payload.Misc),
   thumbnailUrl |-> << S3_BASE, "/thumbNail/", hit.payload.Key >>,
   hiResUrl |-> << S3_BASE, "/hiRes/", hit.payload.Key >>,
   similarity |-> OrZero(hit.score)]

\* for (const hit of searchResults) { ... if (similarPhotos.length >= limit) break; }
RECURSIVE FilterFrom(_, _, _, _, _)
FilterFrom(hits, k, id, lim, similarPhotos) ==
  IF k > Len(hits) THEN similarPhotos
  ELSE IF SkipHit(hits[k].payload.Key, id)
    THEN FilterFrom(hits, k + 1, id, lim, similarPhotos)
    ELSE LET pushed == Append(similarPhotos, FormatHit(hits[k]))
         IN  IF Len(pushed) >= lim THEN pushed
             ELSE FilterFrom(hits, k + 1, id, lim, pushed)

SimilarPhotos(hits, id, lim) == FilterFrom(hits, 1, id, lim, << >>)

(***************************************************************************)
(* What an invocation returns.                                             *)
(***************************************************************************)
Pending == [kind |-> "pending", statusCode |-> 0, headers |-> {}, message |-> "", body |-> << >>]

\* a bare `return;` resolves the handler's promise with undefined
Undefined ==
  [kind |-> "undefined", statusCode |-> 0, headers |-> {}, message |-> "", body |-> << >>]

\* headers: { 'Access-Control-Allow-Origin': '*' }
CorsHeaders == { << "Access-Control-Allow-Origin", "*" >> }

Response(status, msg, photos) ==
  [kind |-> "response", statusCode |-> status, headers |-> CorsHeaders,
   message |-> msg, body |-> photos]

BadRequest == Response(400, "Missing required parameter: id", << >>)

NotFound == Response(404, "Photo not found", << >>)

ServerError == Response(500, "Internal server error", << >>)

Ok(photos) == Response(200, "", photos)

(***************************************************************************)
(* Outbound calls: each is logged when issued and settled when it answers. *)
(***************************************************************************)
Call(op, request) == [op |-> op, request |-> request, result |-> "pending"]

\* GetCommand by key, and the scroll with the filter on Key
KeyRequest(key) == [Key |-> key]

\* axios.get(`${QDRANT_BASE_URL}/collections`)
HealthRequest == [path |-> "/collections"]

\* faulty variant of SearchRequest: the page is not overfetched
SearchRequest_NoOverfetch(vector, lim, thr) ==
  [vector |-> vector, limit |-> lim, score_threshold |-> thr, with_payload |-> TRUE]

\* { vector, limit: limit + 5, score_threshold: threshold, with_payload: true }
SearchRequest(vector, lim, thr) ==
  [vector |-> vector, limit |-> lim + 5, score_threshold |-> thr, with_payload |-> TRUE]

\* faulty variant of ScanRequest: the scan asks for limit + 5 records
ScanRequest_Overfetch(team, lim) == [Team |-> team, Limit |-> lim + 5]

\* scanParams: FilterExpression '#team = :team' with photoItem.Team, Limit: limit + 1
ScanRequest(team, lim) == [Team |-> team, Limit |-> lim + 1]

Settle(log, outcome) == [log EXCEPT ![Len(log)].result = outcome]

\* no earlier request is kept
NoLast == [photoId |-> "", limit |-> DefaultLimit, threshold |-> DefaultThreshold, calls |-> << >>,
           searchResults |-> << >>, resp |-> Pending]

NoneSelected == [Years |-> << >>, Events |-> << >>, Days |-> << >>]

\* let FilterExpression, ExpressionAttributeNames, ExpressionAttributeValues
\* left undefined
NoFilter == [has |-> FALSE, clauses |-> {}, names |-> << >>, values |-> << >>]

Init ==
  /\ last = NoLast
  /\ ppc = "idle"
  /\ raw = << >>
  /\ filter = NoFilter
  /\ scanned = << >>
  /\ scans = << >>
  /\ presp = Pending
  /\ resolved = << >>
  /\ fpc = "idle"
  /\ selected = NoneSelected
  /\ queries = << >>
  /\ fresp = Pending
  /\ ver \in {1, 2}
  /\ table \in Tables
  /\ useMockMode = MOCK_MODE
  /\ pc = [i \in Invocations |-> "idle"]
  /\ photoId = [i \in Invocations |-> ""]
  /\ limit = [i \in Invocations |-> DefaultLimit]
  /\ threshold = [i \in Invocations |-> DefaultThreshold]
  /\ thresholdParam = [i \in Invocations |-> NoText]
  /\ photoItem = [i \in Invocations |-> NoItem]
  /\ branch = [i \in Invocations |-> "none"]
  /\ calls = [i \in Invocations |-> << >>]
  /\ searchResults = [i \in Invocations |-> << >>]
  /\ resp = [i \in Invocations |-> Pending]

\* invocation i is resumed at the await named `at`; the response of a finished
\* invocation is handed to the platform before any other continuation runs
Resumes(i, at) == pc[i] = at /\ \A j \in Invocations : pc[j] # "done"

\* the call in flight of invocation i
InFlight(i) == calls[i][Len(calls[i])]

\* what invocation i sends with its next call, having got `got` from the last
Request(i, op, got) ==
  CASE op = "search" -> SearchRequest(got, limit[i], threshold[i])
    [] op = "scan" -> ScanRequest(photoItem[i].Team, limit[i])
    [] op \in {"getVector", "scroll"} -> KeyRequest(photoId[i])

\* the invocation settles its call, writes the flag and suspends at its next call
Await(i, outcome, flag, arm, op, at) ==
  /\ useMockMode' = flag
  /\ branch' = [branch EXCEPT ![i] = arm]
  /\ calls' = [calls EXCEPT ![i] = Append(Settle(@, outcome), Call(op, Request(i, op, outcome)))]
  /\ pc' = [pc EXCEPT ![i] = at]
  /\ UNCHANGED << aux, ver, table, photoId, limit, threshold, thresholdParam, photoItem, searchResults, resp >>

\* the invocation settles its call and returns
Return(i, outcome, flag, hits, response) ==
  /\ useMockMode' = flag
  /\ calls' = [calls EXCEPT ![i] = Settle(@, outcome)]
  /\ searchResults' = [searchResults EXCEPT ![i] = hits]
  /\ resp' = [resp EXCEPT ![i] = response]
  /\ pc' = [pc EXCEPT ![i] = "done"]
  /\ UNCHANGED << aux, ver, table, photoId, limit, threshold, thresholdParam, photoItem, branch >>

\* step 3 of the handler, reached without an await after searchResults is set
Respond200(i, outcome, flag, hits) ==
  Return(i, outcome, flag, hits, Ok(SimilarPhotos(hits, photoId[i], limit[i])))

\* useMockMode = true; ... await ddb.send(new ScanCommand(scanParams))
Fallback(i, outcome, at) == Await(i, outcome, TRUE, branch[i], "scan", at)

(***************************************************************************)
(* The handler, one action per resumption.                                 *)
(***************************************************************************)
\* faulty variant of FlagAfterLookup: the reset is placed before the 404 return
FlagAfterLookup_ResetFirst(found) == IF ver = 2 THEN MOCK_MODE ELSE useMockMode

\* useMockMode = MOCK_MODE, executed by the second version once the photo is
\* found (after the 404 return); the first version never resets the flag
FlagAfterLookup(found) == IF ver = 2 /\ found THEN MOCK_MODE ELSE useMockMode

\* the platform calls exports.handler(event): validation, up to the first await
Invoke(i) ==
  /\ Resumes(i, "idle")
  /\ \E event \in Events :
       IF MissingId(event)
         THEN /\ resp' = [resp EXCEPT ![i] = BadRequest]
              /\ pc' = [pc EXCEPT ![i] = "done"]
              /\ UNCHANGED << photoId, limit, threshold, thresholdParam, calls >>
         ELSE /\ photoId' = [photoId EXCEPT ![i] = event.id]
              /\ limit' = [limit EXCEPT ![i] = ParseLimit(event)]
              /\ threshold' = [threshold EXCEPT ![i] = ParseThreshold(event)]
              /\ thresholdParam' = [thresholdParam EXCEPT ![i] =
                    IF event.hasThreshold THEN Text(event.threshold) ELSE NoText]
              /\ calls' = [calls EXCEPT ![i] = << Call("getItem", KeyRequest(event.id)) >>]
              /\ pc' = [pc EXCEPT ![i] = "getPhotoItem"]
              /\ UNCHANGED resp
  /\ UNCHANGED << aux, ver, table, useMockMode, photoItem, branch, searchResults >>

\* faulty variant of GetPhotoItemReturns: getPhotoItem rethrows, so a failure
\* of the store reaches the outer catch
GetPhotoItemReturns_Rethrows(i) ==
  /\ Resumes(i, "getPhotoItem")
  /\ Return(i, "error", useMockMode, << >>, ServerError)

\* await getPhotoItem(photoId) answers: 404, or on to the health check (or
\* straight to the mock arm when the flag is set)
GetPhotoItemReturns(i) ==
  /\ Resumes(i, "getPhotoItem")
  /\ \E storeOk \in BOOLEAN :
       LET item == GetPhotoItem(photoId[i], storeOk)
           outcome == IF ~storeOk THEN "error" ELSE IF item = NoItem THEN "none" ELSE "ok"
           flag == FlagAfterLookup(item # NoItem)
       IN  IF item = NoItem
             THEN /\ Return(i, outcome, flag, << >>, NotFound)
                  /\ UNCHANGED photoItem
             ELSE /\ photoItem' = [photoItem EXCEPT ![i] = item]
                  /\ useMockMode' = flag
                  /\ branch' = [branch EXCEPT ![i] = IF flag THEN "mock" ELSE "none"]
                  /\ calls' = [calls EXCEPT ![i] =
                        Append(Settle(@, outcome),
                               IF flag THEN Call("scan", ScanRequest(item.Team, limit[i]))
                                       ELSE Call("health", HealthRequest))]
                  /\ pc' = [pc EXCEPT ![i] = IF flag THEN "scanMock" ELSE "healthCheck"]
                  /\ UNCHANGED << aux, ver, table, photoId, limit, threshold, thresholdParam, searchResults, resp >>

\* faulty variant of HealthFlag: a listing without the collection passes
HealthFlag_ErrorOnly(outcome) == IF outcome = "error" THEN TRUE ELSE useMockMode

\* useMockMode after the health check: set when the call throws or the
\* listing does not name the collection
HealthFlag(outcome) == IF outcome = "ok" THEN useMockMode ELSE TRUE

\* await axios.get(.../collections) answers or throws; then `if (useMockMode)`
HealthCheckReturns(i) ==
  /\ Resumes(i, "healthCheck")
  /\ \E outcome \in {"ok", "missing", "error"} :
       LET flag == HealthFlag(outcome)
       IN  IF flag
             THEN Await(i, outcome, flag, "mock", "scan", "scanMock")
             ELSE IF ver = 1
               THEN Await(i, outcome, flag, "real", "getVector", "getPhotoVector")
               ELSE Await(i, outcome, flag, "real", "scroll", "scroll")

\* the scan of the mock-mode arm answers; its map uses the undeclared pointId
ScanMockReturns(i) ==
  /\ Resumes(i, "scanMock")
  /\ \E storeOk \in BOOLEAN :
       LET items == ScanItems(InFlight(i).request.Team, InFlight(i).request.Limit)
       IN  IF ~storeOk
             THEN Return(i, "error", useMockMode, << >>, ServerError)
             ELSE IF MockMapThrows(items)
               THEN Return(i, "ok", useMockMode, << >>, ServerError)
               ELSE Respond200(i, "ok", useMockMode, << >>)

\* first version: await getPhotoVector(photoId) answers; an empty array is truthy
GetPhotoVectorReturns(i) ==
  /\ Resumes(i, "getPhotoVector")
  /\ \E outcome \in {"vector", "empty", "none", "error"} :
       IF outcome \in {"vector", "empty"}
         THEN Await(i, outcome, useMockMode, branch[i], "search", "search")
         ELSE Await(i, outcome, useMockMode, branch[i], "scroll", "scrollFallback")

\* first version: the scroll inside `if (!vector)` answers or throws
ScrollFallbackReturns(i) ==
  /\ Resumes(i, "scrollFallback")
  /\ \E outcome \in {"vector", "empty", "novector", "nopoints", "error"} :
       IF outcome = "vector"
         THEN Await(i, outcome, useMockMode, branch[i], "search", "searchFallback")
         ELSE Fallback(i, outcome, "scanMissing")

\* first version: the search inside `if (!vector)` answers or throws; on
\* success the handler executes a bare `return;`
SearchFallbackReturns(i) ==
  /\ Resumes(i, "searchFallback")
  /\ \/ \E hits \in SearchResultSets :
          /\ Len(hits) <= InFlight(i).request.limit
          /\ Return(i, "ok", useMockMode, hits, Undefined)
     \/ \E outcome \in {"notok", "error"} : Fallback(i, outcome, "scanMissing")

\* the scan after a missing vector answers (then a bare `return;`) or throws
\* into the catch of the vector-path try, which scans again
ScanMissingReturns(i) ==
  /\ Resumes(i, "scanMissing")
  /\ \E storeOk \in BOOLEAN :
       IF storeOk
         THEN LET items == ScanItems(InFlight(i).request.Team, InFlight(i).request.Limit)
              IN  \E scores \in RandomScores(items) :
                    Return(i, "ok", useMockMode, FallbackHits(items, scores, photoId[i]), Undefined)
         ELSE Fallback(i, "error", "scanCatch")

\* second version: the scroll answers or throws
ScrollReturns(i) ==
  /\ Resumes(i, "scroll")
  /\ \E outcome \in {"vector", "empty", "novector", "nopoints", "error"} :
       CASE outcome \in {"vector", "empty"} ->
              Await(i, outcome, useMockMode, branch[i], "search", "search")
         [] outcome \in {"novector", "nopoints"} -> Fallback(i, outcome, "scanMissing")
         [] outcome = "error" -> Fallback(i, outcome, "scanCatch")

\* the search with the photo's vector answers or throws
SearchReturns(i) ==
  /\ Resumes(i, "search")
  /\ \/ \E hits \in SearchResultSets :
          /\ Len(hits) <= InFlight(i).request.limit
          /\ Respond200(i, "ok", useMockMode, hits)
     \/ \E outcome \in {"notok", "error"} : Fallback(i, outcome, "scanCatch")

\* the scan in the catch of the vector-path try answers or throws
ScanCatchReturns(i) ==
  /\ Resumes(i, "scanCatch")
  /\ \E storeOk \in BOOLEAN :
       IF storeOk
         THEN LET items == ScanItems(InFlight(i).request.Team, InFlight(i).request.Limit)
              IN  \E scores \in RandomScores(items) :
                    Respond200(i, "ok", useMockMode, FallbackHits(items, scores, photoId[i]))
         ELSE Return(i, "error", useMockMode, << >>, ServerError)

\* the platform takes the result; the invocation's locals are gone
Deliver(i) ==
  /\ pc[i] = "done"
  /\ pc' = [pc EXCEPT ![i] = "idle"]
  /\ photoId' = [photoId EXCEPT ![i] = ""]
  /\ limit' = [limit EXCEPT ![i] = DefaultLimit]
  /\ threshold' = [threshold EXCEPT ![i] = DefaultThreshold]
  /\ thresholdParam' = [thresholdParam EXCEPT ![i] = NoText]
  /\ photoItem' = [photoItem EXCEPT ![i] = NoItem]
  /\ branch' = [branch EXCEPT ![i] = "none"]
  /\ calls' = [calls EXCEPT ![i] = << >>]
  /\ searchResults' = [searchResults EXCEPT ![i] = << >>]
  /\ resp' = [resp EXCEPT ![i] = Pending]
  /\ UNCHANGED << aux, ver, table, useMockMode >>

Step(i) ==
  \/ Invoke(i)
  \/ GetPhotoItemReturns(i)
  \/ HealthCheckReturns(i)
  \/ ScanMockReturns(i)
  \/ GetPhotoVectorReturns(i)
  \/ ScrollFallbackReturns(i)
  \/ SearchFallbackReturns(i)
  \/ ScanMissingReturns(i)
  \/ ScrollReturns(i)
  \/ SearchReturns(i)
  \/ ScanCatchReturns(i)
  \/ Deliver(i)

\* the platform takes the result of a request that reached the item store,
\* and the request with its answer is kept for comparison with a later one
Remember(i) ==
  /\ pc[i] = "done" /\ calls[i] # << >> /\ last = NoLast
  /\ last' = [photoId |-> photoId[i], limit |-> limit[i], threshold |-> threshold[i], calls |-> calls[i],
               searchResults |-> searchResults[i], resp |-> resp[i]]
  /\ pc' = [pc EXCEPT ![i] = "idle"]
  /\ photoId' = [photoId EXCEPT ![i] = ""]
  /\ limit' = [limit EXCEPT ![i] = DefaultLimit]
  /\ threshold' = [threshold EXCEPT ![i] = DefaultThreshold]
  /\ thresholdParam' = [thresholdParam EXCEPT ![i] = NoText]
  /\ photoItem' = [photoItem EXCEPT ![i] = NoItem]
  /\ branch' = [branch EXCEPT ![i] = "none"]
  /\ calls' = [calls EXCEPT ![i] = << >>]
  /\ searchResults' = [searchResults EXCEPT ![i] = << >>]
  /\ resp' = [resp EXCEPT ![i] = Pending]
  /\ UNCHANGED << filterVars, photosVars, resolved, ver, table, useMockMode >>

\* invocations of one worker interleave at their awaits
Next == \E i \in Invocations : Step(i)

Spec == Init /\ [][Next]_vars

\* one invocation at a time: a request arrives after the previous one returned
NextSeq == \E i \in Invocations : (\A j \in Invocations \ {i} : pc[j] = "idle") /\ Step(i)

SpecSeq == Init /\ [][NextSeq]_vars

\* the outbound calls made with { timeout: QDRANT_TIMEOUT_MS }: the axios calls
\* to the vector service; ddb.send is called without timeout or abort signal
HasTimeout(op) == op \in {"health", "scroll", "search"}

\* invocation i awaits a call that its timeout settles if nothing else does
AwaitsBounded(i) ==
  /\ pc[i] \notin {"idle", "done"}
  /\ HasTimeout(calls[i][Len(calls[i])].op)

\* what is sure to happen: a bounded call is settled (answer, error or
\* timeout) and the continuation runs; a returned value is taken by the
\* platform.  Nothing settles a call to the item store that never answers.
Fairness ==
  \A i \in Invocations :
    WF_vars(AwaitsBounded(i) /\ Step(i)) /\ WF_vars(Deliver(i))

SpecLive == Init /\ [][NextSeq]_vars /\ Fairness

\* one invocation at a time, and one request is kept to compare a later one with
NextRepeat ==
  \E i \in Invocations :
    (\A j \in Invocations \ {i} : pc[j] = "idle") /\ (Step(i) \/ Remember(i))

SpecRepeat == Init /\ [][NextRepeat]_vars

\* ---------------------------------------------------------------------------
\* handlers/getFilters.js

\* a ParentPath, kept as the parts the template joins
ROOT == << "ROOT" >>

YearPath(y) == << "YEAR#", y >>

EventPath(y, e) == << "YEAR#", y, "#EVENT#", e >>

DayPath(y, e, d) == << "YEAR#", y, "#EVENT#", e, "#DAY#", d >>

Facet(parent, prefix, value, count) ==
  [ParentPath |-> parent, SK |-> << prefix, value >>,
   ActualFilterValue |-> value, PhotoCount |-> count]

\* the content of FILTERS_TABLE_NAME, each partition in sort-key order
FiltersTable ==
  << Facet(ROOT, "YEAR#", "2022", 0),
     Facet(ROOT, "YEAR#", "2023", 5),
     Facet(ROOT, "YEAR#", "2024", 7),
     Facet(YearPath("2023"), "EVENT#", "Cup", 2),
     Facet(YearPath("2023"), "EVENT#", "Open", 3),
     Facet(YearPath("2024"), "EVENT#", "Final", 0),
     Facet(YearPath("2024"), "EVENT#", "Open", 4),
     Facet(EventPath("2023", "Cup"), "DAY#", "Sun", 2),
     Facet(EventPath("2023", "Open"), "DAY#", "Sat", 3),
     Facet(EventPath("2024", "Open"), "DAY#", "Sat", 2),
     Facet(EventPath("2024", "Open"), "DAY#", "Sun", 2),
     Facet(DayPath("2023", "Cup", "Sun"), "TEAM#", "Green", 2),
     Facet(DayPath("2023", "Open", "Sat"), "MISC#", "pit", 1),
     Facet(DayPath("2023", "Open", "Sat"), "TEAM#", "Blue", 1),
     Facet(DayPath("2023", "Open", "Sat"), "TEAM#", "Red", 2),
     Facet(DayPath("2024", "Open", "Sat"), "MISC#", "Start", 1),
     Facet(DayPath("2024", "Open", "Sat"), "TEAM#", "Green", 1),
     Facet(DayPath("2024", "Open", "Sat"), "TEAM#", "Red", 1),
     Facet(DayPath("2024", "Open", "Sun"), "MISC#", "Podium", 0),
     Facet(DayPath("2024", "Open", "Sun"), "MISC#", "pit", 1),
     Facet(DayPath("2024", "Open", "Sun"), "TEAM#", "Blue", 2) >>

\* the values of the table by UTF-16 code units, the order of Array.sort()
CodeUnitOrder ==
  << "2022", "2023", "2024", "Blue", "Cup", "Final", "Green", "Open", "Podium",
     "Red", "Sat", "Start", "Sun", "pit" >>

\* the same values in the order of String.localeCompare
LocaleOrder ==
  << "2022", "2023", "2024", "Blue", "Cup", "Final", "Green", "Open", "pit",
     "Podium", "Red", "Sat", "Start", "Sun" >>

Rank(order, v) == CHOOSE k \in 1..Len(order) : order[k] = v

RECURSIVE Insert(_, _, _)
Insert(v, sorted, order) ==
  IF sorted = << >> THEN << v >>
  ELSE IF Rank(order, v) < Rank(order, Head(sorted)) THEN << v >> \o sorted
  ELSE << Head(sorted) >> \o Insert(v, Tail(sorted), order)

\* array.sort() under the given order
RECURSIVE SortBy(_, _)
SortBy(seq, order) ==
  IF seq = << >> THEN << >> ELSE Insert(Head(seq), SortBy(Tail(seq), order), order)

\* results.flat()
RECURSIVE Flat(_)
Flat(results) == IF results = << >> THEN << >> ELSE Head(results) \o Flat(Tail(results))

\* faulty variant of Distinct: the array is spread without the Set
Distinct_AsIs(seq) == seq

\* [...new Set(array)]: the first occurrence of each value, in array order
Distinct(seq) ==
  LET F[k \in 0..Len(seq)] ==
        IF k = 0 THEN << >>
        ELSE IF \E j \in 1..(k - 1) : seq[j] = seq[k] THEN F[k - 1]
        ELSE Append(F[k - 1], seq[k])
  IN  F[Len(seq)]

\* ParentPath = :pp AND begins_with(SK, :sk_prefix)
QueryItems(parentPath, filterTypePrefix) ==
  SelectSeq(FiltersTable,
            LAMBDA item : item.ParentPath = parentPath /\ item.SK[1] = filterTypePrefix)

\* queryFilters: the values of the items with PhotoCount > 0, sorted; [] when
\* the query throws
QueryFilters(parentPath, filterTypePrefix, storeOk) ==
  IF ~storeOk THEN << >>
  ELSE LET kept == SelectSeq(QueryItems(parentPath, filterTypePrefix),
                             LAMBDA item : item.PhotoCount > 0)
       IN  SortBy([k \in 1..Len(kept) |-> kept[k].ActualFilterValue], CodeUnitOrder)

\* event.multiValueQueryStringParameters or event.queryStringParameters that
\* is null
NoMap == [has |-> FALSE, map |-> << >>]

Param(key, values) == IF values = << >> THEN << >> ELSE key :> values

\* queryStringParameters holds the last value of each key
LastValues(map) == [k \in DOMAIN map |-> map[k][Len(map[k])]]

\* the event of API Gateway: both maps, or neither when the URL has no query
GatewayEvent(map) ==
  IF DOMAIN map = {} THEN [multi |-> NoMap, single |-> NoMap]
  ELSE [multi |-> [has |-> TRUE, map |-> map],
        single |-> [has |-> TRUE, map |-> LastValues(map)]]

\* the event of an invoker that passes queryStringParameters only
DirectEvent(map) == [multi |-> NoMap, single |-> [has |-> TRUE, map |-> LastValues(map)]]

YearPicks == { << >>, << "2023" >>, << "2024" >>, << "2023", "2024" >>, << "2024", "2024" >>,
               << "" >>, << "", "2024" >> }

EventPicks == { << >>, << "Open" >>, << "Open", "Cup" >>, << "Final" >> }

DayPicks == { << >>, << "Sat" >>, << "Sat", "Sun" >> }

FilterEvents ==
  { GatewayEvent(Param("year", y) @@ Param("event", e) @@ Param("day", d)) :
      y \in YearPicks, e \in EventPicks, d \in DayPicks }
  \cup { GatewayEvent(Param("Year", y) @@ Param("Event", << "Open" >>) @@ Param("day", << "Sat" >>)) :
           y \in YearPicks }
  \cup { GatewayEvent(("year" :> << "2023" >>) @@ ("Year" :> << "2024" >>)
                      @@ ("EVENT" :> << "Open" >>)) }
  \cup { DirectEvent(Param("year", y) @@ Param("Event", e)) :
           y \in YearPicks, e \in EventPicks }

\* paramName.charAt(0).toUpperCase() + paramName.slice(1).toLowerCase()
TitleParam(paramName) ==
  CASE paramName = "year" -> "Year" [] paramName = "event" -> "Event" [] paramName = "day" -> "Day"

\* getQueryParamAsArray
GetQueryParamAsArray(event, paramName) ==
  LET lowerParam == paramName
      titleParam == TitleParam(paramName)
      multi == event.multi.map
      single == event.single.map
      truthy(key) == key \in DOMAIN single /\ single[key] \notin {"", Absent}
      values ==
        IF event.multi.has
          THEN IF lowerParam \in DOMAIN multi THEN multi[lowerParam]
               ELSE IF titleParam \in DOMAIN multi THEN multi[titleParam]
               ELSE << >>
          ELSE IF event.single.has
            THEN IF truthy(lowerParam) THEN << single[lowerParam] >>
                 ELSE IF truthy(titleParam) THEN << single[titleParam] >>
                 ELSE << >>
            ELSE << >>
  IN  SelectSeq(values, LAMBDA v : v \notin {"", Absent})

\* the values an array of the multi-value map holds for one name; an invoker
\* other than API Gateway may pass null among them
ValueLists == { << "" >>, << "2024" >>, << "", "2023" >>, << Absent, "2024", "" >> }

\* the value queryStringParameters holds for one name
SingleValues == { "", "2023", "2024", Absent }

\* the maps with any of the two keys
MapsOf(keys, range) == UNION { [ks -> range] : ks \in SUBSET keys }

\* the events getQueryParamAsArray is called with for a name: each map is
\* absent or holds any of the lower-case and the Title-case key
ParamEvents(paramName) ==
  LET keys == { paramName, TitleParam(paramName) }
      maps(range) == { NoMap } \cup { [has |-> TRUE, map |-> m] : m \in MapsOf(keys, range) }
  IN  { [multi |-> mm, single |-> sm] : mm \in maps(ValueLists), sm \in maps(SingleValues) }

\* the parent paths of the event queries: one per selected year
EventParents(sel) == [k \in 1..Len(sel.Years) |-> YearPath(sel.Years[k])]

\* the parent paths of the day queries: years outermost, events innermost
DayParents(sel) ==
  LET ne == Len(sel.Events)
  IN  [n \in 1..(Len(sel.Years) * ne) |->
         EventPath(sel.Years[((n - 1) \div ne) + 1], sel.Events[((n - 1) % ne) + 1])]

\* faulty variant of TeamParents: only the first selected year is followed
TeamParents_FirstYearOnly(sel) ==
  LET ne == Len(sel.Events)
      nd == Len(sel.Days)
  IN  IF Len(sel.Years) = 0 THEN << >>
      ELSE [n \in 1..(ne * nd) |->
              DayPath(sel.Years[1], sel.Events[((n - 1) \div nd) + 1], sel.Days[((n - 1) % nd) + 1])]

\* the parent paths of the team and misc queries: years, then events, then days
TeamParents(sel) ==
  LET ne == Len(sel.Events)
      nd == Len(sel.Days)
  IN  [n \in 1..(Len(sel.Years) * ne * nd) |->
         DayPath(sel.Years[((n - 1) \div (ne * nd)) + 1],
                 sel.Events[(((n - 1) \div nd) % ne) + 1],
                 sel.Days[((n - 1) % nd) + 1])]

FilterQuery(parentPath, prefix) ==
  [ParentPath |-> parentPath, prefix |-> prefix, state |-> "pending", result |-> << >>]

\* the queryFilters calls the handler starts before it awaits, in call order
IssuedQueries(sel) ==
  LET ep == EventParents(sel)
      dp == DayParents(sel)
      tp == TeamParents(sel)
  IN  << FilterQuery(ROOT, "YEAR#") >>
      \o [k \in 1..Len(ep) |-> FilterQuery(ep[k], "EVENT#")]
      \o [k \in 1..Len(dp) |-> FilterQuery(dp[k], "DAY#")]
      \o [k \in 1..(2 * Len(tp)) |->
            FilterQuery(tp[(k + 1) \div 2], IF k % 2 = 1 THEN "TEAM#" ELSE "MISC#")]

\* the most parent paths of the team and misc queries of one request
MaxParents == 2

\* faulty variant of Combined: one failed query empties the whole list, as
\* Promise.all does when a promise rejects
Combined_AllOrNothing(qs, prefix) ==
  LET mine == SelectSeq(qs, LAMBDA q : q.prefix = prefix)
  IN  IF \E k \in 1..Len(mine) : mine[k].state = "error" THEN << >>
      ELSE SortBy(Distinct(Flat([k \in 1..Len(mine) |-> mine[k].result])), CodeUnitOrder)

\* Promise.all(promises).then(results => [...new Set(results.flat())].sort())
Combined(qs, prefix) ==
  LET mine == SelectSeq(qs, LAMBDA q : q.prefix = prefix)
  IN  SortBy(Distinct(Flat([k \in 1..Len(mine) |-> mine[k].result])), CodeUnitOrder)

\* filters after the assignments and the final sort with localeCompare
Filters(qs) ==
  [Year |-> SortBy(qs[1].result, LocaleOrder),
   Event |-> SortBy(Combined(qs, "EVENT#"), LocaleOrder),
   Day |-> SortBy(Combined(qs, "DAY#"), LocaleOrder),
   Team |-> SortBy(Combined(qs, "TEAM#"), LocaleOrder),
   Misc |-> SortBy(Combined(qs, "MISC#"), LocaleOrder)]

\* { statusCode: 200, headers: {...}, body: JSON.stringify(filters) }
FiltersResponse(filters) ==
  [kind |-> "response", statusCode |-> 200,
   headers |-> CorsHeaders \cup { << "Access-Control-Allow-Credentials", "true" >> },
   message |-> "", body |-> filters]

\* what getFilters never writes
similarVars == << ver, table, useMockMode, pc, photoId, limit, threshold, thresholdParam, photoItem, branch,
                  calls, searchResults, resp, last >>

\* a request arrives: the selections are read and every query is started
FiltersInvoke ==
  /\ fpc = "idle"
  /\ \E event \in FilterEvents :
       LET sel == [Years |-> GetQueryParamAsArray(event, "year"),
                   Events |-> GetQueryParamAsArray(event, "event"),
                   Days |-> GetQueryParamAsArray(event, "day")]
       IN  /\ Len(TeamParents(sel)) <= MaxParents
           /\ selected' = sel
           /\ queries' = IssuedQueries(sel)
  /\ fpc' = "waiting"
  /\ fresp' = Pending
  /\ UNCHANGED << similarVars, photosVars, resolved >>

\* one of the pending queries answers or throws
FilterQueryReturns ==
  /\ fpc = "waiting"
  /\ \E k \in 1..Len(queries), storeOk \in BOOLEAN :
       /\ queries[k].state = "pending"
       /\ queries' = [queries EXCEPT
                        ![k].state = IF storeOk THEN "ok" ELSE "error",
                        ![k].result = QueryFilters(queries[k].ParentPath,
                                                   queries[k].prefix, storeOk)]
  /\ UNCHANGED << fpc, selected, fresp, similarVars, photosVars, resolved >>

\* every promise has settled: the handler sorts the lists and returns
FiltersRespond ==
  /\ fpc = "waiting"
  /\ \A k \in 1..Len(queries) : queries[k].state # "pending"
  /\ fresp' = FiltersResponse(Filters(queries))
  /\ fpc' = "done"
  /\ UNCHANGED << selected, queries, similarVars, photosVars, resolved >>

\* the platform takes the result
FiltersDeliver ==
  /\ fpc = "done"
  /\ fpc' = "idle"
  /\ selected' = NoneSelected
  /\ queries' = << >>
  /\ fresp' = Pending
  /\ UNCHANGED << similarVars, photosVars, resolved >>

NextFilters == FiltersInvoke \/ FilterQueryReturns \/ FiltersRespond \/ FiltersDeliver

\* getFilters shares no state with the similar-photos handler
InitFilters == Init /\ ver = 2 /\ table = << P1, P2, P3 >>

SpecFilters == InitFilters /\ [][NextFilters]_vars

\* getQueryParamAsArray(event, paramName) is called and returns
ResolveParam ==
  /\ resolved = << >>
  /\ \E paramName \in {"year", "event", "day"} :
       \E event \in ParamEvents(paramName) :
         resolved' = << [event |-> event, paramName |-> paramName,
                         values |-> GetQueryParamAsArray(event, paramName)] >>
  /\ UNCHANGED << similarVars, filterVars, photosVars >>

\* the caller takes the array
ResolveTaken ==
  /\ resolved # << >>
  /\ resolved' = << >>
  /\ UNCHANGED << similarVars, filterVars, photosVars >>

NextParams == ResolveParam \/ ResolveTaken

SpecParams == Init /\ [][NextParams]_vars

\* ---------------------------------------------------------------------------
\* handlers/getPhotos.js

\* the parameter maps the photos handler is called with
PhotoParams ==
  { << >>,
    "Team" :> << "Red" >>,
    "Team" :> << "Red", "Blue" >>,
    ("Year" :> << "2024" >>) @@ ("Team" :> << "Red" >>),
    ("Year" :> << "2023", "2024" >>) @@ ("Day" :> << "Sat" >>),
    "year" :> << "2024" >>,
    "Misc" :> << "" >>,
    "sort-by" :> << "Year" >> }

\* events of API Gateway, and events of an invoker that passes
\* queryStringParameters only, where a parameter may be null
PhotoEvents ==
  { GatewayEvent(m) : m \in PhotoParams }
  \cup { DirectEvent(m) : m \in PhotoParams \ { << >> } }
  \cup { [multi |-> NoMap, single |-> [has |-> TRUE, map |-> m]] :
           m \in { "Team" :> Absent, ("Year" :> "2024") @@ ("Team" :> Absent) } }

\* const raw = event.multiValueQueryStringParameters
\*   || Object.entries(event.queryStringParameters || {}).reduce(...)
Raw(event) ==
  IF event.multi.has THEN event.multi.map
  ELSE IF event.single.has
    THEN [k \in DOMAIN event.single.map |->
            IF event.single.map[k] = Absent THEN << >> ELSE << event.single.map[k] >>]
    ELSE << >>

\* `#${key}`, kept as the parts the template joins
NamePlaceholder(key) == << "#", key >>

\* faulty variant of ValuePlaceholder: the values of one key share a placeholder
ValuePlaceholder_NoIndex(key, i) == << ":", key, 0 >>

\* `:${key}${i}`, kept as the parts the template joins
ValuePlaceholder(key, i) == << ":", key, i >>

\* the clause `#${key} IN (${phs.join(',')})`
Clause(key, vals) ==
  [name |-> NamePlaceholder(key),
   phs |-> [i \in 1..Len(vals) |-> ValuePlaceholder(key, i - 1)]]

\* the FilterExpression built from raw: one clause per key, joined by AND
\* (kept as the set of the clauses), with the two placeholder maps
BuildFilter(r) ==
  IF DOMAIN r = {} THEN NoFilter
  ELSE [has |-> TRUE,
        clauses |-> { Clause(k, r[k]) : k \in DOMAIN r },
        names |-> [n \in { NamePlaceholder(k) : k \in DOMAIN r } |-> n[2]],
        values |-> [ph \in UNION { { ValuePlaceholder(k, i - 1) : i \in 1..Len(r[k]) } :
                                     k \in DOMAIN r } |-> r[ph[2]][ph[3] + 1]]]

\* the parameter names that cannot follow # or : in a placeholder of the
\* store's expression syntax (letters, digits and underscore only)
BadPlaceholderNames == { "sort-by" }

\* the store accepts the expression: every placeholder is well formed and no
\* IN list is empty
StoreAccepts(f) ==
  \A c \in f.clauses : c.name[2] \notin BadPlaceholderNames /\ Len(c.phs) >= 1

\* the store's evaluation of the expression on one record: every clause
\* holds, a clause holding when the named attribute exists and equals one of
\* the listed values
StoreSelects(f, record) ==
  \A c \in f.clauses :
    LET attr == f.names[c.name]
    IN  /\ attr \in DOMAIN record
        /\ record[attr] # Absent
        /\ \E i \in 1..Len(c.phs) : f.values[c.phs[i]] = record[attr]

\* the most records the store evaluates for one page
MaxPage == 2

NoKey == [has |-> FALSE, Key |-> ""]

\* the place in the table after the record with the start key
StartOf(startKey) ==
  IF ~startKey.has THEN 0
  ELSE CHOOSE k \in 1..Len(table) : table[k].Key = startKey.Key

\* one page of the scan: the store evaluates the n records after the start
\* key and answers the selected ones, with the key of the last record
\* evaluated unless the table is exhausted; `more` says whether a page that
\* ends with the table still carries that key
ScanPage(f, startKey, n, more) ==
  LET from == StartOf(startKey)
      to == IF from + n < Len(table) THEN from + n ELSE Len(table)
      read == SubSeq(table, from + 1, to)
  IN  [Items |-> SelectSeq(read, LAMBDA record : StoreSelects(f, record)),
       LastEvaluatedKey |->
         IF to > from /\ (to < Len(table) \/ more)
           THEN [has |-> TRUE, Key |-> table[to].Key] ELSE NoKey]

\* faulty variant of ScanParams: the start key is never passed on
ScanParams_NoStartKey(f, lastKey) == [filter |-> f, ExclusiveStartKey |-> NoKey]

\* const params = { TableName, FilterExpression..., ExclusiveStartKey: lastKey }
ScanParams(f, lastKey) == [filter |-> f, ExclusiveStartKey |-> lastKey]

\* a scan that was sent and has not answered
PhotoScan(params) ==
  [params |-> params, result |-> "pending",
   page |-> [Items |-> << >>, LastEvaluatedKey |-> NoKey]]

\* the base of the asset URLs of getPhotos.js
S3_BASE_Photos == "https://trackphotos-eu-west-1.s3.eu-west-1.amazonaws.com"

\* items.map(item => ({ id: key, Year: item.Year, ... })); JSON.stringify
\* leaves out the attributes that are undefined
PhotoShape(item) ==
  [id |-> item.Key, Year |-> item.Year, Event |-> item.Event, Day |-> item.Day,
   Team |-> item.Team, Misc |-> item.Misc,
   thumbnailUrl |-> << S3_BASE_Photos, "/thumbNail/", item.Key >>,
   hiResUrl |-> << S3_BASE_Photos, "/hiRes/", item.Key >>]

\* faulty variant of OnScanError: the items read so far are returned
OnScanError_Partial(read) == Ok([k \in 1..Len(read) |-> PhotoShape(read[k])])

\* the catch: { statusCode: 500, body: { message: 'Internal server error' } }
OnScanError(read) == ServerError

\* what getPhotos never writes
notPhotosVars == << similarVars, filterVars, resolved >>

\* a request arrives: raw and the filter are built and the first page is asked for
PhotosInvoke ==
  /\ ppc = "idle"
  /\ \E event \in PhotoEvents :
       /\ raw' = Raw(event)
       /\ filter' = BuildFilter(Raw(event))
       /\ scans' = << PhotoScan(ScanParams(BuildFilter(Raw(event)), NoKey)) >>
  /\ scanned' = << >>
  /\ presp' = Pending
  /\ ppc' = "scanning"
  /\ UNCHANGED notPhotosVars

\* await ddb.send(new ScanCommand(params)) answers or throws: the page is
\* appended and the loop goes on while the page carries a LastEvaluatedKey
PhotosScanReturns ==
  /\ ppc = "scanning"
  /\ LET k == Len(scans)
         params == scans[k].params
     IN  \/ \E n \in 1..MaxPage, more \in BOOLEAN :
              LET page == ScanPage(params.filter, params.ExclusiveStartKey, n, more)
                  settled == [scans EXCEPT ![k].result = "ok", ![k].page = page]
                  all == scanned \o page.Items
              IN  /\ StoreAccepts(params.filter)
                  /\ scanned' = all
                  /\ IF page.LastEvaluatedKey.has
                       THEN /\ scans' = Append(settled,
                                   PhotoScan(ScanParams(filter, page.LastEvaluatedKey)))
                            /\ UNCHANGED << ppc, presp >>
                       ELSE /\ scans' = settled
                            /\ presp' = Ok([j \in 1..Len(all) |-> PhotoShape(all[j])])
                            /\ ppc' = "done"
         \/ \E outcome \in {"error", "rejected"} :
              /\ outcome = "rejected" <=> ~StoreAccepts(params.filter)
              /\ scans' = [scans EXCEPT ![k].result = outcome]
              /\ presp' = OnScanError(scanned)
              /\ ppc' = "done"
              /\ UNCHANGED scanned
  /\ UNCHANGED << raw, filter, notPhotosVars >>

\* the platform takes the result
PhotosDeliver ==
  /\ ppc = "done"
  /\ ppc' = "idle"
  /\ raw' = << >>
  /\ filter' = NoFilter
  /\ scanned' = << >>
  /\ scans' = << >>
  /\ presp' = Pending
  /\ UNCHANGED notPhotosVars

NextPhotos == PhotosInvoke \/ PhotosScanReturns \/ PhotosDeliver

\* getPhotos shares the item store with the similar-photos handler, and nothing else
InitPhotos == Init /\ ver = 2

SpecPhotos == InitPhotos /\ [][NextPhotos]_vars

\* the store answers every scan, and the platform takes every result
SpecPhotosLive ==
  InitPhotos /\ [][NextPhotos]_vars /\ WF_vars(PhotosScanReturns) /\ WF_vars(PhotosDeliver)

(***************************************************************************)
(* Properties.                                                             *)
(***************************************************************************)
\* invocation i issued call op and it ended with one of the results
Has(i, op, results) ==
  \E k \in 1..Len(calls[i]) : calls[i][k].op = op /\ calls[i][k].result \in results

Answered200(i) == resp[i].kind = "response" /\ resp[i].statusCode = 200

\* C1: a request whose photo is in the store and whose health check fails
\* (error, timeout or collection not listed) is answered 200 whatever the Team
\* scan returns, never 500.
C1_HealthFailureIs200 ==
  \A i \in Invocations :
    (pc[i] = "done" /\ Has(i, "health", {"missing", "error"}) /\ Has(i, "scan", {"ok"}))
      => Answered200(i)

\* C2: requests handled one after the other: every request whose photo is
\* found runs its own health check, and takes the vector path when that check
\* succeeds, whatever earlier requests did.
C2_FallbackScopedToRequest ==
  \A i \in Invocations :
    photoItem[i] # NoItem =>
      /\ Has(i, "health", {"pending", "ok", "missing", "error"})
      /\ Has(i, "health", {"ok"}) => branch[i] = "real"

\* C3: interleaved invocations: the arm of `if (useMockMode)` an invocation
\* takes is decided by its own health check alone.
C3_BranchFollowsOwnHealthCheck ==
  \A i \in Invocations :
    /\ Has(i, "health", {"ok"}) => branch[i] = "real"
    /\ Has(i, "health", {"missing", "error"}) => branch[i] = "mock"

\* C4: health check ok, then the point lookup finds no point or a point
\* without vector: the request ends 200 with the filtered fallback hits.
C4_MissingVectorIs200 ==
  \A i \in Invocations :
    (pc[i] = "done" /\ Has(i, "health", {"ok"}) /\ Has(i, "scroll", {"nopoints", "novector"})
       /\ ~Has(i, "scan", {"error"}))
      => /\ Answered200(i)
         /\ resp[i].body = SimilarPhotos(searchResults[i], photoId[i], limit[i])

\* C5: health check ok, then a fault of the vector lookup or of the search:
\* the fallback runs and the request ends 200, never 500 and never without a
\* response.
C5_VectorFaultIs200 ==
  \A i \in Invocations :
    (pc[i] = "done" /\ Has(i, "health", {"ok"})
       /\ (Has(i, "scroll", {"error"}) \/ Has(i, "search", {"error", "notok"}))
       /\ ~Has(i, "scan", {"error"}))
      => Answered200(i) /\ Has(i, "scan", {"ok"})

\* C6: no element of the body of a 200 response has the id of the request,
\* on the vector path and on the fallback path.
C6_QueryKeyNeverInOutput ==
  \A i \in Invocations :
    Answered200(i) => \A k \in 1..Len(resp[i].body) : resp[i].body[k].id # photoId[i]

\* a 200 response whose raw search result held the query photo and another one
C6_Witness ==
  \E i \in Invocations :
    /\ Answered200(i) /\ Has(i, "search", {"ok"}) /\ resp[i].body # << >>
    /\ \E k \in 1..Len(searchResults[i]) : searchResults[i][k].payload.Key = photoId[i]

\* C7: the body of a 200 response has at most `limit` elements, limit being
\* the integer parsed from the parameter (20 when absent or invalid).
C7_OutputWithinLimit ==
  \A i \in Invocations : Answered200(i) => Len(resp[i].body) <= limit[i]

\* C8: the limit a request is processed with (scan, search, truncation) is
\* at least 1, also when the client sends 0 or a negative limit.
C8_EffectiveLimitAtLeastOne ==
  \A i \in Invocations : calls[i] # << >> => limit[i] >= 1

\* C9: a request without id (no query string, no id, empty id) ends 400
\* "Missing required parameter: id" and makes no outbound call: only requests
\* with a non-empty id reach the item store, and what returns without a call
\* is the 400 response.
C9_MissingIdIs400 ==
  \A i \in Invocations :
    /\ calls[i] # << >> => photoId[i] # ""
    /\ (pc[i] = "done" /\ calls[i] = << >>) => resp[i] = BadRequest
    /\ resp[i].statusCode = 400 => (resp[i] = BadRequest /\ calls[i] = << >>)

\* a request answered 400 while the other invocation is in flight
C9_Witness ==
  \E i \in Invocations :
    /\ pc[i] = "done" /\ resp[i] = BadRequest /\ calls[i] = << >>
    /\ \E j \in Invocations : pc[j] = "healthCheck"

InStore(key) == \E k \in 1..Len(table) : table[k].Key = key

\* C10: when the id is not in the item store the request ends 404 "Photo not
\* found" in the step that receives the lookup's answer; the only call it made
\* is that lookup, and the step leaves the fallback flag as it was.
C10_NotFoundStopsTheRequest ==
  [][\A i \in Invocations :
       /\ (pc[i] = "getPhotoItem" /\ pc'[i] # "getPhotoItem" /\ ~InStore(photoId[i]))
            => (pc'[i] = "done" /\ resp'[i] = NotFound)
       /\ (resp[i] # NotFound /\ resp'[i] = NotFound)
            => /\ useMockMode' = useMockMode
               /\ branch'[i] = "none"
               /\ Len(calls'[i]) = 1 /\ calls'[i][1].op = "getItem"]_vars

\* a 404 for a photo the store does not hold, answered by the second version
\* while the flag is set
C10_Witness ==
  \E i \in Invocations :
    /\ pc[i] = "done" /\ resp[i] = NotFound /\ ~InStore(photoId[i])
    /\ ver = 2 /\ useMockMode

\* C11: every element of a 200 response produced through the fallback (a
\* Team scan that answered) has the Team of the query photo.
C11_FallbackHitsShareTeam ==
  \A i \in Invocations :
    (Answered200(i) /\ Has(i, "scan", {"ok"}))
      => \A k \in 1..Len(resp[i].body) : resp[i].body[k].Team = photoItem[i].Team

\* a non-empty fallback response after a failed search, from a store that
\* also holds photos of another team
C11_Witness ==
  \E i \in Invocations :
    /\ Answered200(i) /\ Has(i, "scan", {"ok"}) /\ Has(i, "search", {"error", "notok"})
    /\ resp[i].body # << >>
    /\ \E k \in 1..Len(table) : table[k].Team # photoItem[i].Team

\* C12: health check, vector lookup and search succeed and the search returns
\* no hit: the step that receives the search's answer ends the request with
\* 200 and an empty array, issues no fallback scan and leaves the flag alone.
C12_EmptySearchIsFinal ==
  [][\A i \in Invocations :
       (/\ pc[i] \in {"search", "searchFallback"} /\ pc'[i] = "done"
        /\ calls'[i][Len(calls'[i])].result = "ok"
        /\ searchResults'[i] = << >>)
         => /\ resp'[i] = Ok(<< >>)
            /\ useMockMode' = useMockMode
            /\ \A k \in 1..Len(calls'[i]) : calls'[i][k].op # "scan"]_vars

HasIn(log, op, results) ==
  \E k \in 1..Len(log) : log[k].op = op /\ log[k].result \in results

\* the store and the vector service answered the calls of both logs alike
SameAnswers(a, b) ==
  \A k \in 1..Len(a), m \in 1..Len(b) : a[k].op = b[m].op => a[k].result = b[m].result

Keys(photos) == { photos[k].id : k \in 1..Len(photos) }

\* C13: two identical requests handled one after the other, with the store
\* and the vector service answering every call alike, get the same status code
\* and the same set of keys.
C13_RepeatedRequestSameAnswer ==
  \A i \in Invocations :
    (/\ pc[i] = "done" /\ last # NoLast
     /\ photoId[i] = last.photoId /\ limit[i] = last.limit
     /\ threshold[i] = last.threshold
     /\ SameAnswers(calls[i], last.calls)
     /\ (HasIn(calls[i], "search", {"ok"}) /\ HasIn(last.calls, "search", {"ok"}))
          => searchResults[i] = last.searchResults)
      => /\ resp[i].kind = last.resp.kind
         /\ resp[i].statusCode = last.resp.statusCode
         /\ Keys(resp[i].body) = Keys(last.resp.body)

\* C14: when the item store throws during the primary photo lookup, the
\* request ends with an error response and makes no other call.
C14_LookupFailureIsFatal ==
  \A i \in Invocations :
    Has(i, "getItem", {"error"})
      => /\ pc[i] = "done"
         /\ resp[i].kind = "response" /\ resp[i].statusCode >= 400
         /\ Len(calls[i]) = 1

\* a request for a stored photo that ended on a failure of the lookup
C14_Witness ==
  \E i \in Invocations :
    pc[i] = "done" /\ Has(i, "getItem", {"error"}) /\ InStore(photoId[i])

\* C15: every invocation eventually returns, also when an outbound call
\* never answers on its own.
C15_EveryInvocationReturns ==
  \A i \in Invocations : (pc[i] \notin {"idle", "done"}) ~> (pc[i] = "done")

\* C16: the body of a 200 response is the first `limit` hits of the raw
\* sequence that have a key other than the query key, in the raw order.
C16_OutputIsFilteredPrefix ==
  \A i \in Invocations :
    Answered200(i) =>
      LET kept == SelectSeq(searchResults[i],
                            LAMBDA h : h.payload.Key # "" /\ h.payload.Key # photoId[i])
          n == IF limit[i] < 0 THEN 0
               ELSE IF limit[i] < Len(kept) THEN limit[i] ELSE Len(kept)
      IN  /\ Len(resp[i].body) = n
          /\ \A k \in 1..n : resp[i].body[k].id = kept[k].payload.Key

\* C17: each element of a 200 body is built from one raw hit: id is its key,
\* Year, Event, Day, Team, Misc are the payload's values or "" when absent,
\* similarity is the score or 0 when absent, and the two URLs are made of the
\* asset base and the key alone.
C17_OutputShape ==
  \A i \in Invocations :
    Answered200(i) =>
      \A k \in 1..Len(resp[i].body) :
        LET e == resp[i].body[k]
        IN  /\ DOMAIN e = {"id", "Year", "Event", "Day", "Team", "Misc",
                           "thumbnailUrl", "hiResUrl", "similarity"}
            /\ e.thumbnailUrl = << S3_BASE, "/thumbNail/", e.id >>
            /\ e.hiResUrl = << S3_BASE, "/hiRes/", e.id >>
            /\ \E h \in 1..Len(searchResults[i]) :
                 LET p == searchResults[i][h].payload
                     s == searchResults[i][h].score
                 IN  /\ e.id = p.Key
                     /\ e.Year = (IF p.Year = Absent THEN "" ELSE p.Year)
                     /\ e.Event = (IF p.Event = Absent THEN "" ELSE p.Event)
                     /\ e.Day = (IF p.Day = Absent THEN "" ELSE p.Day)
                     /\ e.Team = (IF p.Team = Absent THEN "" ELSE p.Team)
                     /\ e.Misc = (IF p.Misc = Absent THEN "" ELSE p.Misc)
                     /\ e.similarity = (IF s.has THEN s.val ELSE 0)

\* a 200 body with an element built from a hit without Year, Team and score,
\* and one built from a hit that has them
C17_Witness ==
  \E i \in Invocations :
    /\ Answered200(i)
    /\ \E h \in 1..Len(searchResults[i]) :
         /\ searchResults[i][h].payload.Year = Absent
         /\ searchResults[i][h].payload.Team = Absent
         /\ ~searchResults[i][h].score.has
         /\ \E k \in 1..Len(resp[i].body) :
              resp[i].body[k].id = searchResults[i][h].payload.Key
    /\ \E k \in 1..Len(resp[i].body) :
         resp[i].body[k].Year # "" /\ resp[i].body[k].similarity > 0

\* the number of calls of one kind an invocation has issued
Issued(i, op) == Cardinality({ k \in 1..Len(calls[i]) : calls[i][k].op = op })

\* C19: within one request the health check, the point lookup, the search and
\* the fallback scan are each issued at most once, and a vector-service call
\* that fails is followed at once by the fallback scan.
C19_NoRetries ==
  \A i \in Invocations :
    /\ \A op \in {"health", "scroll", "search", "scan"} : Issued(i, op) <= 1
    /\ \A k \in 1..Len(calls[i]) :
         (calls[i][k].op \in {"scroll", "search"} /\ calls[i][k].result \in {"error", "notok"})
           => k < Len(calls[i]) /\ calls[i][k + 1].op = "scan"

\* C20: a request whose health check fails, or finds the collection missing
\* from the listing, issues no point lookup and no search; the call after the
\* health check is the fallback scan.
C20_UnhealthyGoesToFallback ==
  \A i \in Invocations :
    \A k \in 1..Len(calls[i]) :
      (calls[i][k].op = "health" /\ calls[i][k].result \in {"missing", "error"})
        => /\ \A op \in {"getVector", "scroll", "search"} : Issued(i, op) = 0
           /\ k < Len(calls[i])
           /\ calls[i][k + 1].op = "scan"

\* a request whose listing lacks the collection and whose fallback scan answered
C20_Witness ==
  \E i \in Invocations : Has(i, "health", {"missing"}) /\ Has(i, "scan", {"ok"})

Range(seq) == { seq[k] : k \in 1..Len(seq) }

\* the selectable values the table holds under a parent path
Children(parentPath, prefix) ==
  { item.ActualFilterValue :
      item \in { f \in Range(FiltersTable) :
                   f.ParentPath = parentPath /\ f.SK[1] = prefix /\ f.PhotoCount > 0 } }

\* the store failed every query made for the parent path
Failed(parentPath, prefix) ==
  LET mine == { k \in 1..Len(queries) :
                  queries[k].ParentPath = parentPath /\ queries[k].prefix = prefix }
  IN  mine # {} /\ \A k \in mine : queries[k].state = "error"

\* what the store answers for one parent path: its selectable values, or
\* nothing when the store failed the query
Answered(parentPath, prefix) ==
  IF Failed(parentPath, prefix) THEN {} ELSE Children(parentPath, prefix)

\* C18: the Year list always comes from the one query under ROOT; Event is
\* empty unless a year is selected, Day unless a year and an event are, Team
\* and Misc unless a year, an event and a day are; and each list is the union,
\* over every combination of the selected parent values, of what the store
\* answered for that combination.
C18_FacetCascade ==
  fpc = "done" =>
    LET b == fresp.body
        ys == Range(selected.Years)
        es == Range(selected.Events)
        ds == Range(selected.Days)
    IN  /\ Cardinality({ k \in 1..Len(queries) : queries[k].ParentPath = ROOT }) = 1
        /\ Range(b.Year) = Answered(ROOT, "YEAR#")
        /\ ys = {} => b.Event = << >>
        /\ (ys = {} \/ es = {}) => b.Day = << >>
        /\ (ys = {} \/ es = {} \/ ds = {}) => (b.Team = << >> /\ b.Misc = << >>)
        /\ Range(b.Event) = UNION { Answered(YearPath(y), "EVENT#") : y \in ys }
        /\ Range(b.Day) = UNION { Answered(EventPath(y, e), "DAY#") : y \in ys, e \in es }
        /\ Range(b.Team) =
             UNION { Answered(DayPath(y, e, d), "TEAM#") : y \in ys, e \in es, d \in ds }
        /\ Range(b.Misc) =
             UNION { Answered(DayPath(y, e, d), "MISC#") : y \in ys, e \in es, d \in ds }

\* two years, one event and one day are selected, every query answered, and
\* the Team list joins the teams of both years
C18_Witness ==
  /\ fpc = "done"
  /\ Cardinality(Range(selected.Years)) = 2
  /\ selected.Events # << >> /\ selected.Days # << >>
  /\ \A k \in 1..Len(queries) : queries[k].state = "ok"
  /\ Len(fresp.body.Team) = 3
  /\ Len(fresp.body.Event) = 2

\* C21: the calls of one request are made one after the other: the health
\* check after the photo lookup found the photo, a vector lookup after the
\* health check passed, and a search only right after a lookup that gave a
\* non-empty vector for the query key.
C21_StepsOrdered ==
  \A i \in Invocations :
    \A k \in 1..Len(calls[i]) :
      LET c == calls[i][k]
          before(op, results) ==
            \E j \in 1..(k - 1) : calls[i][j].op = op /\ calls[i][j].result \in results
      IN  /\ \A j \in 1..(k - 1) : calls[i][j].result # "pending"
          /\ c.op = "health" => before("getItem", {"ok"})
          /\ c.op \in {"getVector", "scroll", "search"} => before("health", {"ok"})
          /\ c.op = "search" =>
               /\ k > 1
               /\ calls[i][k - 1].op \in {"getVector", "scroll"}
               /\ calls[i][k - 1].request = [Key |-> photoId[i]]
               /\ calls[i][k - 1].result = "vector"
               /\ c.request.vector = "vector"

\* C22: the raw sequence that a fallback scan produces holds no hit for the
\* query photo.
C22_FallbackExcludesQueryPhoto ==
  \A i \in Invocations :
    Has(i, "scan", {"ok"}) =>
      \A h \in 1..Len(searchResults[i]) : searchResults[i][h].payload.Key # photoId[i]

\* C23: every search in the log asks for limit + 5 candidates, with the
\* request's threshold as score threshold and with payloads.
C23_SearchRequestShape ==
  \A i \in Invocations :
    \A k \in 1..Len(calls[i]) :
      calls[i][k].op = "search" =>
        /\ calls[i][k].request.limit = limit[i] + 5
        /\ calls[i][k].request.score_threshold = threshold[i]
        /\ calls[i][k].request.with_payload

\* one request awaits the search made with the vector of the vector service,
\* another the search made with the vector of the vector table
C23_Witness ==
  \E i, j \in Invocations :
    /\ pc[i] = "searchFallback" /\ InFlight(i).op = "search"
    /\ pc[j] = "search" /\ InFlight(j).op = "search"
    /\ limit[i] # limit[j]

\* C24: every fallback scan asks for limit + 1 records with the Team of the
\* query photo, and the raw sequence it produces has at most limit + 1 hits.
C24_ScanRequestShape ==
  \A i \in Invocations :
    /\ \A k \in 1..Len(calls[i]) :
         calls[i][k].op = "scan" =>
           /\ calls[i][k].request.Limit = limit[i] + 1
           /\ calls[i][k].request.Team = photoItem[i].Team
    /\ Has(i, "scan", {"ok"}) => Len(searchResults[i]) <= limit[i] + 1

\* a fallback scan with limit 1 that gave two hits
C24_Witness ==
  \E i \in Invocations :
    Has(i, "scan", {"ok"}) /\ limit[i] = 1 /\ Len(searchResults[i]) = 2

\* the number, in hundredths, that a threshold text of the requests
\* considered denotes
Denotes(text) ==
  CASE text = <<"0">> -> [number |-> TRUE, val |-> 0]
    [] text = <<"0", ".", "5">> -> [number |-> TRUE, val |-> 50]
    [] text = <<"0", ".", "9", "x">> -> [number |-> TRUE, val |-> 90]
    [] OTHER -> [number |-> FALSE, val |-> 0]

\* C25: the score threshold of a search is the number the request's threshold
\* parameter denotes, 0 included; it is 0.75 only when the parameter is absent
\* or denotes no number.
C25_ThresholdAsRequested ==
  \A i \in Invocations :
    \A k \in 1..Len(calls[i]) :
      calls[i][k].op = "search" =>
        calls[i][k].request.score_threshold =
          (IF thresholdParam[i].has /\ Denotes(thresholdParam[i].text).number
             THEN Denotes(thresholdParam[i].text).val
             ELSE DefaultThreshold)

\* C26: an invocation that has returned holds a response object with status
\* 200, 400, 404 or 500 and the header Access-Control-Allow-Origin: *.
C26_AlwaysAResponse ==
  \A i \in Invocations :
    pc[i] = "done" =>
      /\ resp[i].kind = "response"
      /\ resp[i].statusCode \in {200, 400, 404, 500}
      /\ << "Access-Control-Allow-Origin", "*" >> \in resp[i].headers

\* C27: a request whose photo lookup failed in the store, like one whose
\* photo does not exist, is answered 404 "Photo not found", never 500.
C27_LookupFailureIs404 ==
  \A i \in Invocations :
    (pc[i] = "done" /\ Has(i, "getItem", {"error", "none"})) =>
      /\ resp[i].kind = "response"
      /\ resp[i].statusCode = 404
      /\ resp[i].message = "Photo not found"

\* a request for a photo of the store whose lookup threw
C27_Witness ==
  \E i \in Invocations :
    pc[i] = "done" /\ Has(i, "getItem", {"error"}) /\ InStore(photoId[i])

\* C28: a request one of whose fallback scans threw is answered 500
\* "Internal server error".
C28_ScanFailureIs500 ==
  \A i \in Invocations :
    (pc[i] = "done" /\ Has(i, "scan", {"error"})) =>
      /\ resp[i].kind = "response"
      /\ resp[i].statusCode = 500
      /\ resp[i].message = "Internal server error"

FacetKeys == {"Year", "Event", "Day", "Team", "Misc"}

\* the key prefix of the items that a facet list is made from
PrefixOf(facet) ==
  CASE facet = "Year" -> "YEAR#" [] facet = "Event" -> "EVENT#" [] facet = "Day" -> "DAY#"
    [] facet = "Team" -> "TEAM#" [] facet = "Misc" -> "MISC#"

\* the queries made for a facet that the store answered
AnsweredQueries(facet) ==
  { k \in 1..Len(queries) : queries[k].prefix = PrefixOf(facet) /\ queries[k].state = "ok" }

\* C29: the filters handler answers 200 with the five facet keys, and each
\* list holds exactly the selectable values of the queries the store
\* answered: a failed query takes away only what it would have given.
C29_FailedQueryIsLocal ==
  fpc = "done" =>
    /\ fresp.kind = "response"
    /\ fresp.statusCode = 200
    /\ DOMAIN fresp.body = FacetKeys
    /\ \A facet \in FacetKeys :
         Range(fresp.body[facet]) =
           UNION { Children(queries[k].ParentPath, queries[k].prefix) :
                     k \in AnsweredQueries(facet) }

\* a query for a facet failed, another for the same facet gave values, and
\* the values of another facet are there too
C29_Witness ==
  /\ fpc = "done"
  /\ \E k \in 1..Len(queries) :
       /\ queries[k].state = "error"
       /\ queries[k].prefix = "EVENT#"
       /\ Children(queries[k].ParentPath, "EVENT#") # {}
  /\ fresp.body.Event # << >>
  /\ fresp.body.Year # << >>

RECURSIVE PagesItems(_)
PagesItems(k) == IF k = 0 THEN << >> ELSE PagesItems(k - 1) \o scans[k].page.Items

\* the response body that lists exactly these items, in this order
ListOf(read) == [j \in 1..Len(read) |-> PhotoShape(read[j])]

AllPagesRead == \A k \in 1..Len(scans) : scans[k].result = "ok"

\* the scans follow one another: the first has no start key, each later one
\* starts at the LastEvaluatedKey of the page before it, and that page came
\* with one; the loop has stopped exactly when the last page came without one;
\* and the answer lists the items of all pages in page order
C31_Pages ==
  ppc # "idle" =>
    /\ Len(scans) >= 1
    /\ scans[1].params.ExclusiveStartKey = NoKey
    /\ \A k \in 2..Len(scans) :
         /\ scans[k - 1].result = "ok"
         /\ scans[k - 1].page.LastEvaluatedKey.has
         /\ scans[k].params.ExclusiveStartKey = scans[k - 1].page.LastEvaluatedKey
    /\ \A k \in 1..Len(scans) : scans[k].params.filter = filter
    /\ scanned = PagesItems(Len(scans))
    /\ ppc = "scanning" <=> scans[Len(scans)].result = "pending"
    /\ (ppc = "done" /\ AllPagesRead) =>
         /\ ~scans[Len(scans)].page.LastEvaluatedKey.has
         /\ presp = Ok(ListOf(PagesItems(Len(scans))))

\* C31: the paginated scan of the photos handler issues one scan per page,
\* passes the LastEvaluatedKey of the page before as the start key, stops
\* exactly when a page comes without a LastEvaluatedKey and returns the items
\* of all pages in page order; and when the store answers every scan and
\* comes to a page without a continuation key, the handler terminates
C31_PaginatedScan == [](C31_Pages) /\ (ppc = "scanning" ~> ppc = "done")

\* three pages were read, two of them with items, and the list was returned
C31_Witness ==
  /\ ppc = "done"
  /\ Len(scans) = 3
  /\ AllPagesRead
  /\ scans[1].page.Items # << >>
  /\ scans[2].page.Items # << >>
  /\ presp = Ok(ListOf(scans[1].page.Items \o scans[2].page.Items \o scans[3].page.Items))
  /\ Len(presp.body) >= 3

SomeScanFailed == \E k \in 1..Len(scans) : scans[k].result \in {"error", "rejected"}

\* the records of the whole table that the filter selects, in table order
CompleteList == SelectSeq(table, LAMBDA record : StoreSelects(filter, record))

\* C32: when a page scan of the photos handler fails, the response has status
\* 500 and the message "Internal server error" and holds no item of the pages
\* read before; a response is the complete list or an error, never a part of
\* the list
C32_CompleteOrError ==
  ppc = "done" =>
    /\ SomeScanFailed =>
         /\ presp.statusCode = 500
         /\ presp.message = "Internal server error"
         /\ presp.body = << >>
    /\ \/ presp.statusCode = 500 /\ presp.body = << >>
       \/ presp.statusCode = 200 /\ presp.body = ListOf(CompleteList)

\* a page with items was read, the scan of the next page failed, and the
\* response is the error
C32_Witness ==
  /\ ppc = "done"
  /\ Len(scans) >= 2
  /\ scans[1].result = "ok"
  /\ scans[1].page.Items # << >>
  /\ scans[Len(scans)].result = "error"
  /\ presp.statusCode = 500

\* the claim's rule, stated on the values given for each parameter name: for
\* every name present the record has the attribute and it equals one of the
\* values given
Matches(record) ==
  \A name \in DOMAIN raw :
    /\ name \in DOMAIN record
    /\ record[name] # Absent
    /\ \E i \in 1..Len(raw[name]) : raw[name][i] = record[name]

\* the records of the table up to the one with this key
UpTo(key) == SubSeq(table, 1, StartOf(key))

\* C33: the filter of the photos handler selects a record if and only if, for
\* every query parameter name present, the record's attribute of that name
\* equals one of the values given for it; with no query parameter the scan
\* has no filter and every record is returned
C33_FilterIsAndOfIn ==
  /\ \A k \in 1..Len(scans) :
       /\ scans[k].params.filter.has <=> DOMAIN raw # {}
       /\ (scans[k].result = "ok" /\ scans[k].page.LastEvaluatedKey.has) =>
            PagesItems(k) = SelectSeq(UpTo(scans[k].page.LastEvaluatedKey), Matches)
  /\ (ppc = "done" /\ presp.statusCode = 200) =>
       /\ presp.body = ListOf(SelectSeq(table, Matches))
       /\ DOMAIN raw = {} => Len(presp.body) = Len(table)

\* two parameter names, one with two values: some records are selected and
\* some are not
C33_Witness ==
  /\ ppc = "done"
  /\ presp.statusCode = 200
  /\ Cardinality(DOMAIN raw) = 2
  /\ \E name \in DOMAIN raw : Len(raw[name]) = 2
  /\ Len(presp.body) > 0
  /\ Len(presp.body) < Len(table)

\* no query parameter: the whole table is returned
C33_Unfiltered ==
  /\ ppc = "done"
  /\ presp.statusCode = 200
  /\ DOMAIN raw = {}
  /\ Len(presp.body) = Len(table)

\* ---------------------------------------------------------------------------
\* getQueryParamAsArray

\* the one map the claim has consulted: the multi-value map when the event
\* has it, else queryStringParameters with each value as a list of one
ConsultedMap(event) ==
  IF event.multi.has THEN event.multi.map
  ELSE IF event.single.has
    THEN [k \in DOMAIN event.single.map |-> << event.single.map[k] >>]
    ELSE << >>

\* within a map, the entry of the lower-case name before that of the
\* Title-case name
Preferred(map, paramName) ==
  IF paramName \in DOMAIN map THEN map[paramName]
  ELSE IF TitleParam(paramName) \in DOMAIN map THEN map[TitleParam(paramName)]
  ELSE << >>

\* null, undefined and the empty string removed
Cleaned(values) == SelectSeq(values, LAMBDA v : v \notin {"", Absent})

\* C34: getQueryParamAsArray consults only multiValueQueryStringParameters
\* when the event has it, and queryStringParameters otherwise; within the map
\* consulted the lower-case name takes precedence over the Title-case name;
\* and null, undefined and empty-string values are removed from the result
C34_ResolvesAsStated ==
  \A k \in 1..Len(resolved) :
    resolved[k].values =
      Cleaned(Preferred(ConsultedMap(resolved[k].event), resolved[k].paramName))

====
